---- MODULE Spec2Model ----
\* A model of renderer/suncg/scene.cc: the instance-colour allocator, the
\* shape-name resolver, the blacklist filter, the scene builder, the draw
\* loop and the inverse-depth branch of the fragment shader.
\*
\* Strings are sequences of one-character strings, so that prefix tests,
\* find and substr are computed rather than assumed.  A colour component
\* x / 255.0 is the pair <<x, 255>> (numerator, denominator).
EXTENDS Integers, Sequences, FiniteSets, TLC

VARIABLES
  pc,                 \* where the modelled call sequence stands
  count, result,      \* get_uniform_sampled_colors: argument and return value
  name, color, prev,  \* get_color_by_shape_name: argument, return value, previous call
  semantic_color_,    \* SemanticColor member: [size, table, background]
  background_color_,  \* SUNCGScene::background_color_
  resolution,         \* ObjectNameResolution mode of the scene
  model_blacklist_file,      \* constructor argument: [given, opens, lines]
  shapes,             \* obj_.shapes
  original_num_shapes,       \* obj_.original_num_shapes
  loaded, retained,   \* history: obj_.shapes as loaded, and as parse_scene found it
  rand_instance_colors, si,  \* parse_scene locals: the palette, the loop index i
  mesh_, materials_, boxmin_, boxmax_,
  mode_, minDepth_,   \* RenderMode of the scene, constructor argument minDepth
  gl,                 \* shader uniforms and the bound texture
  cleared, drawn, di, frames, \* draw(): clears and draw calls of this frame, loop index
  gl_FragCoord_z, fragcolor   \* fragment shader input and output

vars == <<pc, count, result, name, color, prev,
          semantic_color_, background_color_, resolution,
          model_blacklist_file, shapes, original_num_shapes, loaded, retained,
          rand_instance_colors, si, mesh_, materials_, boxmin_, boxmax_,
          mode_, minDepth_, gl, cleared, drawn, di, frames,
          gl_FragCoord_z, fragcolor>>

objVars == <<model_blacklist_file, shapes, original_num_shapes, loaded, retained>>
buildVars == <<rand_instance_colors, si, mesh_, materials_, boxmin_, boxmax_>>
drawVars == <<mode_, minDepth_, gl, cleared, drawn, di, frames>>
fragVars == <<gl_FragCoord_z, fragcolor>>

colorVars == <<count, result>>
resolveVars == <<name, color, prev>>
tableVars == <<semantic_color_, background_color_, resolution>>

\* ---------------------------------------------------------------- bounds
MaxCount == 5

MaxShapes == 2

MaxFrames == 2

ZGrid == 999

\* ------------------------------------------------------------- utilities
Range(s) == {s[i] : i \in DOMAIN s}

Shuffles(s) ==
  {[i \in 1..Len(s) |-> s[p[i]]] : p \in Permutations(1..Len(s))}

\* ------------------------------------------------ get_uniform_sampled_colors
POW_256_3 == 16777216

Unit(x) == <<x, 255>>

vec3(r, g, b) == <<Unit(r), Unit(g), Unit(b)>>

Mut_interval_length(n) == POW_256_3 \div (n + 1)

interval_length(n) == POW_256_3 \div (n + 2)

RECURSIVE color_loop(_, _, _, _)
color_loop(i, n, current_color, acc) ==
  IF i < n
  THEN LET r == current_color % 256
           g == (current_color \div 256) % 256
           b == ((current_color \div 256) \div 256) % 256
       IN color_loop(i + 1, n, current_color + interval_length(n),
                     Append(acc, vec3(r, g, b)))
  ELSE acc

\* The value of `result` right before std::random_shuffle.
sampled_colors(n) == color_loop(0, n, interval_length(n), <<>>)

\* Every outcome std::random_shuffle can give.
get_uniform_sampled_colors(n) == Shuffles(sampled_colors(n))

\* ------------------------------------------------------------- strings
npos == -1

Min(S) == CHOOSE x \in S : \A y \in S : x <= y

\* std::string::find(pat): index of the first occurrence, or npos.
find(s, pat) ==
  LET hits == {k \in 0..(Len(s) - Len(pat)) : SubSeq(s, k + 1, k + Len(pat)) = pat}
  IN IF hits = {} THEN npos ELSE Min(hits)

\* std::string::substr(pos) and substr(0, n).
substr_from(s, pos) == SubSeq(s, pos + 1, Len(s))

substr_to(s, n) == SubSeq(s, 1, n)

s_ModelHash == <<"M", "o", "d", "e", "l", "#">>
s_Hash == <<"#">>
s_Ground == <<"G", "r", "o", "u", "n", "d">>
s_WallInside == <<"W", "a", "l", "l", "I", "n", "s", "i", "d", "e">>
s_WallOutside == <<"W", "a", "l", "l", "O", "u", "t", "s", "i", "d", "e">>
s_Wall == <<"W", "a", "l", "l">>
s_Floor == <<"F", "l", "o", "o", "r">>
s_junk == <<"j", "u", "n", "k">>
s_Chair == <<"C", "h", "a", "i", "r">>
s_Armchair == <<"A", "r", "m", "c", "h", "a", "i", "r">>
s_Table == <<"T", "a", "b", "l", "e">>
s_Desk == <<"D", "e", "s", "k">>
s_person == <<"p", "e", "r", "s", "o", "n">>
s_5 == <<"5">>
s_7 == <<"7">>
s_42 == <<"4", "2">>
s_9 == <<"9">>

\* ------------------------------------------ external tables (category.hh)
\* ModelCategory: model id -> class, coarse or fine grained.
coarse_class(id) ==
  IF id = s_5 THEN s_Chair ELSE IF id = s_7 THEN s_person
  ELSE IF id = s_42 THEN s_Table ELSE <<>>

fine_class(id) ==
  IF id = s_5 THEN s_Armchair ELSE IF id = s_7 THEN s_person
  ELSE IF id = s_42 THEN s_Desk ELSE <<>>

name_from_mode_id(model_id) ==
  IF resolution = "FINE" THEN fine_class(model_id) ELSE coarse_class(model_id)

\* SemanticColor: the rows of the label file for the classes used here;
\* `size` is the number of rows of the whole file.
CoarseLabels ==
  [size |-> 40,
   background |-> vec3(0, 0, 0),
   table |-> (s_Chair :> vec3(10, 20, 30)) @@ (s_Table :> vec3(40, 50, 60))
          @@ (s_person :> vec3(70, 80, 90)) @@ (s_Ground :> vec3(100, 110, 120))
          @@ (s_Wall :> vec3(130, 140, 150))]

FineLabels ==
  [size |-> 200,
   background |-> vec3(255, 255, 255),
   table |-> (s_Armchair :> vec3(11, 21, 31)) @@ (s_Desk :> vec3(41, 51, 61))
          @@ (s_person :> vec3(71, 81, 91)) @@ (s_Ground :> vec3(101, 111, 121))
          @@ (s_Wall :> vec3(131, 141, 151))]

LabelFiles == {CoarseLabels, FineLabels}

get_background_color(sc) == sc.background

get_color(klass) ==
  IF klass \in DOMAIN semantic_color_.table
  THEN semantic_color_.table[klass]
  ELSE get_background_color(semantic_color_)

\* Constructor lines 147-151.
resolution_for(sc) == IF sc.size > 128 THEN "FINE" ELSE "COARSE"

\* ------------------------------------------------- get_color_by_shape_name
\* Mutants of get_color_by_shape_name: one matches "Ground" as a prefix and
\* forgets the wall alias, one returns a default colour on failure.
Mut_no_alias(nm) ==
  IF find(nm, s_ModelHash) = 0
  THEN get_color(name_from_mode_id(substr_from(nm, 6)))
  ELSE IF find(nm, s_Ground) = 0
  THEN get_color(s_Ground)
  ELSE LET split == find(nm, s_Hash)
       IN IF split # npos
          THEN get_color(substr_to(nm, split))
          ELSE background_color_

Mut_default_color(nm) ==
  IF find(nm, s_ModelHash) = 0
  THEN get_color(name_from_mode_id(substr_from(nm, 6)))
  ELSE IF nm = s_Ground
  THEN get_color(s_Ground)
  ELSE LET split == find(nm, s_Hash)
       IN IF split # npos
          THEN LET klass0 == substr_to(nm, split)
               IN get_color(IF klass0 = s_WallInside \/ klass0 = s_WallOutside
                            THEN s_Wall ELSE klass0)
          ELSE vec3(0, 0, 0)

get_color_by_shape_name(nm) ==
  IF find(nm, s_ModelHash) = 0
  THEN LET size_prefix == 6
           model_id == substr_from(nm, size_prefix)
           klass == name_from_mode_id(model_id)
       IN get_color(klass)
  ELSE IF nm = s_Ground
  THEN get_color(s_Ground)
  ELSE LET split == find(nm, s_Hash)
       IN IF split # npos
          THEN LET klass0 == substr_to(nm, split)
                   klass == IF klass0 = s_WallInside \/ klass0 = s_WallOutside
                            THEN s_Wall ELSE klass0
               IN get_color(klass)
          ELSE background_color_

\* ------------------------------------------------ loader data (ObjLoader)
V(x, y, z) == [pos |-> <<x, y, z>>]

Face1 == <<V(0, 0, 0), V(1, 0, 0), V(0, 1, 0)>>
Face2 == <<V(-1, 2, 0), V(0, 2, 1), V(1, -1, 3)>>
Face3 == <<V(5, 5, -2), V(6, 5, -2), V(5, 6, -4)>>

\* tinyobj::mesh_t: one vertex count and one material id per face.
Mesh(ids, faces) ==
  [num_face_vertices |-> [k \in 1..Len(faces) |-> Len(faces[k])],
   material_ids |-> ids,
   faces |-> faces]

\* ObjLoader::convertFace(mesh, f): the vertices of face f.
convertFace(tmesh, f) == tmesh.faces[f + 1]

\* obj_.materials, indexed by material id + 1.
obj_materials ==
  <<[diffuse |-> vec3(204, 102, 51), ambient |-> vec3(25, 25, 25),
     dissolve |-> <<1, 1>>, diffuse_texname |-> "wood.jpg"],
    [diffuse |-> vec3(51, 51, 230), ambient |-> vec3(0, 0, 0),
     dissolve |-> <<1, 2>>, diffuse_texname |-> ""],
    [diffuse |-> vec3(128, 128, 128), ambient |-> vec3(12, 12, 12),
     dissolve |-> <<1, 1>>, diffuse_texname |-> "lost.jpg"]>>

\* TextureRegistry::get: the GL handle of a loaded texture, 0 for none.
textures_get(texname) == IF texname = "wood.jpg" THEN 7 ELSE 0

Named(nm, mesh) == [name |-> nm, mesh |-> mesh]

LoadedShapes ==
  {Named(s_ModelHash \o s_5, Mesh(<<0>>, <<Face1>>)),
   Named(s_ModelHash \o s_7, Mesh(<<0, 1>>, <<Face1, Face2>>)),
   Named(s_ModelHash \o s_9, Mesh(<<2>>, <<Face2>>)),
   Named(s_Ground, Mesh(<<1>>, <<Face3>>)),
   Named(s_WallInside \o s_Hash \o s_5, Mesh(<<1, 0>>, <<Face2, Face1>>)),
   Named(s_junk, Mesh(<<2, 2>>, <<Face1, Face3>>))}

SeqsUpTo(S, n) == UNION {[1..k -> S] : k \in 0..n}

\* A loaded scene: every shape carries its position as original_index.
Indexed(list) ==
  [k \in 1..Len(list) |->
     [name |-> list[k].name, original_index |-> k - 1, mesh |-> list[k].mesh]]

NoBlacklist == [given |-> FALSE, opens |-> FALSE, lines |-> <<>>]

Blacklist(lines) == [given |-> TRUE, opens |-> TRUE, lines |-> lines]

\* The constructor arguments tried: a label file and a blacklist file.
CtorArgs ==
  {[labels |-> CoarseLabels, blacklist |-> NoBlacklist],
   [labels |-> FineLabels,
    blacklist |-> [given |-> TRUE, opens |-> FALSE, lines |-> <<>>]],
   [labels |-> CoarseLabels, blacklist |-> Blacklist(<<>>)],
   [labels |-> FineLabels, blacklist |-> Blacklist(<<s_7>>)],
   [labels |-> CoarseLabels, blacklist |-> Blacklist(<<s_5, s_42, s_5>>)]}

\* ------------------------------------------------------------ filter_models
Mut_filter_models(shps, file) ==
  IF ~file.opens
  THEN shps
  ELSE SelectSeq(shps, LAMBDA shape : shape.name \notin Range(file.lines))

filter_models(shps, file) ==
  IF ~file.opens
  THEN shps
  ELSE LET blk_models == {s_ModelHash \o file.lines[k] : k \in DOMAIN file.lines}
       IN SelectSeq(shps, LAMBDA shape : shape.name \notin blk_models)

\* ModelCategory::filter_category(shapes, {"person"})
filter_category(shps) ==
  SelectSeq(shps, LAMBDA shape :
    ~(find(shape.name, s_ModelHash) = 0
      /\ coarse_class(substr_from(shape.name, 6)) = s_person))

\* ObjLoader::split_shapes_by_material: one shape per material id of a shape,
\* in the order the ids first appear, with the name and original_index kept.
FirstIds(ids) ==
  SelectSeq([k \in DOMAIN ids |-> IF \E j \in 1..(k - 1) : ids[j] = ids[k]
                                  THEN -1 ELSE ids[k]],
            LAMBDA m : m # -1)

FacesOf(mesh, mid) ==
  LET keep == SelectSeq([k \in DOMAIN mesh.faces |-> k],
                        LAMBDA k : mesh.material_ids[k] = mid)
  IN [j \in DOMAIN keep |-> mesh.faces[keep[j]]]

SplitOne(shp) ==
  LET ids == FirstIds(shp.mesh.material_ids)
  IN [j \in DOMAIN ids |->
        [name |-> shp.name, original_index |-> shp.original_index,
         mesh |-> Mesh([k \in 1..Len(FacesOf(shp.mesh, ids[j])) |-> ids[j]],
                       FacesOf(shp.mesh, ids[j]))]]

RECURSIVE split_shapes_by_material(_)
split_shapes_by_material(shps) ==
  IF shps = <<>> THEN <<>>
  ELSE SplitOne(Head(shps)) \o split_shapes_by_material(Tail(shps))

\* ObjLoader::sort_by_transparent: some reordering of the shapes.
sort_by_transparent(shps) == Shuffles(shps)

\* -------------------------------------------------------------- parse_scene
FLT_MAX == 1000000

glm_min(a, b) == [c \in 1..3 |-> IF b[c] < a[c] THEN b[c] ELSE a[c]]

Mut_glm_max(a, b) == [c \in 1..3 |-> IF b[c] < a[c] THEN b[c] ELSE a[c]]

glm_max(a, b) == [c \in 1..3 |-> IF a[c] < b[c] THEN b[c] ELSE a[c]]

RECURSIVE Flatten(_)
Flatten(faces) ==
  IF faces = <<>> THEN <<>> ELSE Head(faces) \o Flatten(Tail(faces))

Mut_mesh_vertices(tmesh) ==
  Flatten([f \in 1..(Len(tmesh.num_face_vertices) - 1) |-> convertFace(tmesh, f - 1)])

\* Lines 259-266: the vertices of every face, in face order.
mesh_vertices(tmesh) ==
  Flatten([f \in 1..Len(tmesh.num_face_vertices) |-> convertFace(tmesh, f - 1)])

\* Lines 261-265: the box after the vertices vs.
RECURSIVE expand_min(_, _)
expand_min(box, vs) ==
  IF vs = <<>> THEN box ELSE expand_min(glm_min(box, Head(vs).pos), Tail(vs))

RECURSIVE expand_max(_, _)
expand_max(box, vs) ==
  IF vs = <<>> THEN box ELSE expand_max(glm_max(box, Head(vs).pos), Tail(vs))

\* Indexed by the position in the retained list (wrapped into the palette).
Mut_instance_color_of(palette, shp, i) == palette[(i % Len(palette)) + 1]

instance_color_of(palette, shp, i) == palette[shp.original_index + 1]

\* Lines 251-252.
asserts_hold(tmesh) ==
  /\ Len(tmesh.material_ids) = Len(tmesh.num_face_vertices)
  /\ Len(tmesh.num_face_vertices) > 0

Mut_MaterialDesc(shp, palette, i) ==
  [mid |-> shp.mesh.material_ids[Len(shp.mesh.material_ids)],
   label_color |-> get_color_by_shape_name(shp.name),
   instance_color |-> instance_color_of(palette, shp, i),
   texture |-> 0]

\* Lines 246-257; m is &obj_.materials[mid], kept as mid.
MaterialDesc(shp, palette, i) ==
  [mid |-> shp.mesh.material_ids[1],
   label_color |-> get_color_by_shape_name(shp.name),
   instance_color |-> instance_color_of(palette, shp, i),
   texture |-> 0]

\* ------------------------------------------------------- idle components
NoCall == [name |-> <<>>, color |-> <<>>]

NEAR100 == 10

GLDefault ==
  [mode |-> 0, Kd |-> vec3(0, 0, 0), Ka |-> vec3(0, 0, 0), dissolve |-> <<0, 1>>,
   minDepth |-> NEAR100, texture_diffuse |-> 0, bound |-> 0]

IdleColors == count = 0 /\ result = <<>>

IdleResolve == name = <<>> /\ color = <<>> /\ prev = NoCall

TablesLoaded ==
  /\ semantic_color_ \in LabelFiles
  /\ background_color_ = get_background_color(semantic_color_)
  /\ resolution = resolution_for(semantic_color_)

IdleObj ==
  /\ model_blacklist_file = NoBlacklist
  /\ shapes = <<>> /\ original_num_shapes = 0 /\ loaded = <<>> /\ retained = <<>>

IdleBuild ==
  /\ rand_instance_colors = <<>> /\ si = 0 /\ mesh_ = <<>> /\ materials_ = <<>>
  /\ boxmin_ = <<0, 0, 0>> /\ boxmax_ = <<0, 0, 0>>

IdleDraw ==
  /\ mode_ = "RGB" /\ minDepth_ = NEAR100 /\ gl = GLDefault
  /\ cleared = <<>> /\ drawn = <<>> /\ di = 0 /\ frames = 0

IdleFrag == gl_FragCoord_z = 0 /\ fragcolor = <<>>

\* ----------------------------------------------- colour allocator, called
InitColors ==
  /\ pc = "colors_call"
  /\ count \in 0..MaxCount
  /\ result = <<>>
  /\ IdleResolve /\ IdleObj /\ IdleBuild /\ IdleDraw /\ IdleFrag
  /\ semantic_color_ = CoarseLabels
  /\ background_color_ = get_background_color(semantic_color_)
  /\ resolution = resolution_for(semantic_color_)

CallSampledColors ==
  /\ pc = "colors_call"
  /\ result' \in get_uniform_sampled_colors(count)
  /\ pc' = "colors_returned"
  /\ UNCHANGED <<count, resolveVars, tableVars, objVars, buildVars, drawVars, fragVars>>

NextColors == CallSampledColors

SpecColors == InitColors /\ [][NextColors]_vars

\* ------------------------------------------------- name resolver, called
Prefixes ==
  {<<>>, s_ModelHash, s_Ground, s_WallInside, s_WallOutside, s_Wall, s_Floor,
   s_junk, <<"x">> \o s_ModelHash}

Suffixes ==
  {<<>>, s_5, s_7, s_42, s_Hash, s_Hash \o s_5, s_Hash \o s_7,
   <<"x">>, <<"x">> \o s_Hash \o s_9}

Names == {p \o s : p \in Prefixes, s \in Suffixes}

InitResolve ==
  /\ pc = "resolve_call"
  /\ name \in Names
  /\ color = <<>>
  /\ prev = NoCall
  /\ IdleColors /\ IdleObj /\ IdleBuild /\ IdleDraw /\ IdleFrag
  /\ TablesLoaded

CallResolve ==
  /\ pc = "resolve_call"
  /\ color' = get_color_by_shape_name(name)
  /\ pc' = "resolve_returned"
  /\ UNCHANGED <<name, prev, colorVars, tableVars, objVars, buildVars, drawVars, fragVars>>

\* The caller goes on to the next shape name.
NextName ==
  /\ pc = "resolve_returned"
  /\ prev = NoCall
  /\ prev' = [name |-> name, color |-> color]
  /\ name' \in Names
  /\ color' = <<>>
  /\ pc' = "resolve_call"
  /\ UNCHANGED <<colorVars, tableVars, objVars, buildVars, drawVars, fragVars>>

NextResolve == CallResolve \/ NextName

SpecResolve == InitResolve /\ [][NextResolve]_vars

\* --------------------------------------------------- SUNCGScene::SUNCGScene
\* The state after the member initialisers (lines 141-145).
Init ==
  /\ pc = "ctor"
  /\ IdleColors /\ IdleResolve /\ IdleBuild /\ IdleFrag
  /\ \E args \in CtorArgs :
       /\ semantic_color_ = args.labels
       /\ model_blacklist_file = args.blacklist
  /\ background_color_ = vec3(0, 0, 0)
  /\ resolution = "COARSE"
  /\ \E list \in SeqsUpTo(LoadedShapes, MaxShapes) :
       /\ shapes = Indexed(list)
       /\ loaded = Indexed(list)
       /\ original_num_shapes = Len(list)
  /\ retained = <<>>
  /\ IdleDraw

\* Lines 147-151.
Ctor_Setup ==
  /\ pc = "ctor"
  /\ background_color_' = get_background_color(semantic_color_)
  /\ resolution' = IF semantic_color_.size > 128 THEN "FINE" ELSE resolution
  /\ pc' = "ctor_filter_models"
  /\ UNCHANGED <<colorVars, resolveVars, semantic_color_, objVars, buildVars,
                 drawVars, fragVars>>

\* Lines 153-155.
Ctor_FilterModels ==
  /\ pc = "ctor_filter_models"
  /\ shapes' = IF model_blacklist_file.given
               THEN filter_models(shapes, model_blacklist_file)
               ELSE shapes
  /\ pc' = "ctor_filter_category"
  /\ UNCHANGED <<colorVars, resolveVars, tableVars, model_blacklist_file,
                 original_num_shapes, loaded, retained, buildVars, drawVars, fragVars>>

\* Line 158.
Ctor_FilterCategory ==
  /\ pc = "ctor_filter_category"
  /\ shapes' = filter_category(shapes)
  /\ pc' = "ctor_split"
  /\ UNCHANGED <<colorVars, resolveVars, tableVars, model_blacklist_file,
                 original_num_shapes, loaded, retained, buildVars, drawVars, fragVars>>

\* Line 160.
Ctor_Split ==
  /\ pc = "ctor_split"
  /\ shapes' = split_shapes_by_material(shapes)
  /\ pc' = "ctor_sort"
  /\ UNCHANGED <<colorVars, resolveVars, tableVars, model_blacklist_file,
                 original_num_shapes, loaded, retained, buildVars, drawVars, fragVars>>

\* Line 162.
Ctor_Sort ==
  /\ pc = "ctor_sort"
  /\ shapes' \in sort_by_transparent(shapes)
  /\ pc' = "parse_scene"
  /\ UNCHANGED <<colorVars, resolveVars, tableVars, model_blacklist_file,
                 original_num_shapes, loaded, retained, buildVars, drawVars, fragVars>>

\* ------------------------------------------------- SUNCGScene::parse_scene
\* Lines 238-242.
ParseBegin ==
  /\ pc = "parse_scene"
  /\ boxmin_' = <<FLT_MAX, FLT_MAX, FLT_MAX>>
  /\ boxmax_' = <<-FLT_MAX, -FLT_MAX, -FLT_MAX>>
  /\ rand_instance_colors' \in get_uniform_sampled_colors(original_num_shapes)
  /\ si' = 0
  /\ retained' = shapes
  /\ pc' = "parse_loop"
  /\ UNCHANGED <<colorVars, resolveVars, tableVars, model_blacklist_file, shapes,
                 original_num_shapes, loaded, mesh_, materials_, drawVars, fragVars>>

\* One iteration of the loop of lines 244-267.
ParseShape ==
  /\ pc = "parse_loop"
  /\ si < Len(shapes)
  /\ LET shp == shapes[si + 1]
         tmesh == shp.mesh
     IN IF asserts_hold(tmesh)
        THEN /\ mesh_' = Append(mesh_, [vertices |-> mesh_vertices(tmesh),
                                         active |-> FALSE])
             /\ materials_' = Append(materials_,
                                     MaterialDesc(shp, rand_instance_colors, si))
             /\ boxmin_' = expand_min(boxmin_, mesh_vertices(tmesh))
             /\ boxmax_' = expand_max(boxmax_, mesh_vertices(tmesh))
             /\ si' = si + 1
             /\ pc' = "parse_loop"
        ELSE /\ pc' = "fatal"
             /\ UNCHANGED <<mesh_, materials_, boxmin_, boxmax_, si>>
  /\ UNCHANGED <<colorVars, resolveVars, tableVars, objVars, rand_instance_colors,
                 drawVars, fragVars>>

\* Lines 268-270.
ParseEnd ==
  /\ pc = "parse_loop"
  /\ si = Len(shapes)
  /\ shapes' = <<>>
  /\ pc' = "activate"
  /\ UNCHANGED <<colorVars, resolveVars, tableVars, model_blacklist_file,
                 original_num_shapes, loaded, retained, buildVars, drawVars, fragVars>>

\* ---------------------------------------------------- SUNCGScene::activate
Activate ==
  /\ pc = "activate"
  /\ IF Len(mesh_) = Len(materials_)
     THEN /\ materials_' =
               [k \in DOMAIN materials_ |->
                  [materials_[k] EXCEPT !.texture =
                     textures_get(obj_materials[materials_[k].mid + 1].diffuse_texname)]]
          /\ mesh_' = [k \in DOMAIN mesh_ |-> [mesh_[k] EXCEPT !.active = TRUE]]
          /\ pc' = "ready"
     ELSE /\ pc' = "fatal"
          /\ UNCHANGED <<mesh_, materials_>>
  /\ UNCHANGED <<colorVars, resolveVars, tableVars, objVars, rand_instance_colors,
                 si, boxmin_, boxmax_, drawVars, fragVars>>

Next ==
  \/ Ctor_Setup \/ Ctor_FilterModels \/ Ctor_FilterCategory \/ Ctor_Split
  \/ Ctor_Sort \/ ParseBegin \/ ParseShape \/ ParseEnd \/ Activate

Spec == Init /\ [][Next]_vars

\* -------------------------------------------------------- SUNCGScene::draw
\* SUNCGShader::RenderMode, as the fragment shader reads it.
ShaderMode ==
  [TEXTURE_LIGHTING |-> 0, LIGHTING |-> 1, CONSTANT_KD |-> 2, DEPTH |-> 3, INVDEPTH |-> 4]

RenderModes == {"RGB", "SEMANTIC", "INSTANCE", "DEPTH", "INVDEPTH"}

\* Lines 310-317: the uniforms set once, before the loop.
uniforms_before_loop(mode, u, minDepth) ==
  IF mode = "DEPTH" THEN [u EXCEPT !.mode = ShaderMode.DEPTH]
  ELSE IF mode = "INVDEPTH"
  THEN [u EXCEPT !.mode = ShaderMode.INVDEPTH, !.minDepth = minDepth]
  ELSE u

Mut_uniforms_for_mesh(mode, u, material) ==
  IF mode = "RGB"
  THEN LET m == obj_materials[material.mid + 1]
       IN [u EXCEPT !.Kd = m.diffuse, !.Ka = m.ambient, !.dissolve = m.dissolve,
                    !.mode = ShaderMode.TEXTURE_LIGHTING]
  ELSE IF mode \in {"SEMANTIC", "INSTANCE"}
  THEN [u EXCEPT !.Kd = IF mode = "SEMANTIC" THEN material.label_color
                        ELSE material.instance_color,
                 !.mode = ShaderMode.CONSTANT_KD]
  ELSE u

\* Lines 280-295 and 303-306: the uniforms set for one object.
uniforms_for_mesh(mode, u, material) ==
  IF mode = "RGB"
  THEN LET m == obj_materials[material.mid + 1]
       IN [u EXCEPT !.Kd = m.diffuse, !.Ka = m.ambient, !.dissolve = m.dissolve,
                    !.texture_diffuse = IF material.texture # 0 THEN 0 ELSE @,
                    !.mode = IF material.texture # 0
                             THEN ShaderMode.TEXTURE_LIGHTING
                             ELSE ShaderMode.LIGHTING]
  ELSE IF mode \in {"SEMANTIC", "INSTANCE"}
  THEN [u EXCEPT !.Kd = IF mode = "SEMANTIC" THEN material.label_color
                        ELSE material.instance_color,
                 !.mode = ShaderMode.CONSTANT_KD]
  ELSE u

\* Line 297: TextureGuard binds the material's texture for the draw call.
texture_bound_for(mode, u, material) ==
  IF mode = "RGB" THEN material.texture ELSE u.bound

\* mesh_[i].draw() as the GPU sees it.
DrawCall(i, u, tex) ==
  [mesh |-> i, mode |-> u.mode, Kd |-> u.Kd, Ka |-> u.Ka, dissolve |-> u.dissolve,
   minDepth |-> u.minDepth, texture |-> tex]

\* ObjSceneBase::set_mode
SetMode ==
  /\ pc = "ready"
  /\ frames < MaxFrames
  /\ mode_' \in (RenderModes \cup {"OTHER"}) \ {mode_}
  /\ UNCHANGED <<pc, colorVars, resolveVars, tableVars, objVars, buildVars,
                 minDepth_, gl, cleared, drawn, di, frames, fragVars>>

\* Lines 274-277 and the branch on mode_ up to its loop.
DrawBegin ==
  /\ pc = "ready"
  /\ frames < MaxFrames
  /\ frames' = frames + 1
  /\ cleared' = background_color_
  /\ drawn' = <<>>
  /\ di' = 0
  /\ IF mode_ \in RenderModes
     THEN /\ gl' = uniforms_before_loop(mode_, gl, minDepth_)
          /\ pc' = "draw_loop"
     ELSE /\ gl' = gl
          /\ pc' = "thrown"
  /\ UNCHANGED <<colorVars, resolveVars, tableVars, objVars, buildVars,
                 mode_, minDepth_, fragVars>>

\* One iteration of the loop of the active branch.
DrawMesh ==
  /\ pc = "draw_loop"
  /\ di < Len(mesh_)
  /\ LET material == materials_[di + 1]
         u == uniforms_for_mesh(mode_, gl, material)
     IN /\ gl' = u
        /\ drawn' = Append(drawn, DrawCall(di, u, texture_bound_for(mode_, u, material)))
  /\ di' = di + 1
  /\ UNCHANGED <<pc, colorVars, resolveVars, tableVars, objVars, buildVars,
                 mode_, minDepth_, cleared, frames, fragVars>>

DrawEnd ==
  /\ pc = "draw_loop"
  /\ di = Len(mesh_)
  /\ pc' = "ready"
  /\ UNCHANGED <<colorVars, resolveVars, tableVars, objVars, buildVars,
                 drawVars, fragVars>>

DrawScenes ==
  LET chair == Named(s_ModelHash \o s_5, Mesh(<<0>>, <<Face1>>))
      person == Named(s_ModelHash \o s_7, Mesh(<<0, 1>>, <<Face1, Face2>>))
      ground == Named(s_Ground, Mesh(<<1>>, <<Face3>>))
      wall == Named(s_WallInside \o s_Hash \o s_5, Mesh(<<1, 0>>, <<Face2, Face1>>))
      junk == Named(s_junk, Mesh(<<2, 2>>, <<Face1, Face3>>))
  IN {<<>>, <<junk>>, <<person, wall>>, <<chair, ground, wall>>}

InitDraw ==
  /\ pc = "ctor"
  /\ IdleColors /\ IdleResolve /\ IdleBuild /\ IdleFrag
  /\ \E args \in CtorArgs :
       /\ args.blacklist \in {NoBlacklist, Blacklist(<<s_7>>)}
       /\ semantic_color_ = args.labels
       /\ model_blacklist_file = args.blacklist
  /\ background_color_ = vec3(0, 0, 0)
  /\ resolution = "COARSE"
  /\ \E list \in DrawScenes :
       /\ shapes = Indexed(list)
       /\ loaded = Indexed(list)
       /\ original_num_shapes = Len(list)
  /\ retained = <<>>
  /\ mode_ = "RGB"
  /\ minDepth_ = 2 * NEAR100
  /\ gl = GLDefault
  /\ cleared = <<>> /\ drawn = <<>> /\ di = 0 /\ frames = 0

NextDraw == Next \/ SetMode \/ DrawBegin \/ DrawMesh \/ DrawEnd

SpecDraw == InitDraw /\ [][NextDraw]_vars

\* ------------------------------------------- parse_scene on any shape list
BuilderShapes ==
  {[name |-> s_junk, original_index |-> 0, mesh |-> Mesh(<<0>>, <<Face1>>)],
   [name |-> s_Ground, original_index |-> 2,
    mesh |-> Mesh(<<0, 1>>, <<Face1, Face2>>)],
   [name |-> s_Wall \o s_Hash \o s_5, original_index |-> 0,
    mesh |-> Mesh(<<1, 0, 1>>, <<Face3, Face1, Face2>>)],
   [name |-> s_junk, original_index |-> 1, mesh |-> Mesh(<<>>, <<>>)],
   [name |-> s_Ground, original_index |-> 1,
    mesh |-> [Mesh(<<1, 1>>, <<Face2, Face3>>) EXCEPT !.material_ids = <<1>>]],
   [name |-> s_ModelHash \o s_5, original_index |-> 2,
    mesh |-> Mesh(<<2, 2>>, <<Face3, Face2>>)]}

InitBuilder ==
  /\ pc = "parse_scene"
  /\ IdleColors /\ IdleResolve /\ IdleBuild /\ IdleDraw /\ IdleFrag
  /\ TablesLoaded
  /\ model_blacklist_file = NoBlacklist
  /\ shapes \in SeqsUpTo(BuilderShapes, MaxShapes)
  /\ original_num_shapes = Cardinality({s.original_index : s \in BuilderShapes})
  /\ loaded = shapes
  /\ retained = <<>>

NextBuilder ==
  \/ ParseBegin \/ ParseShape \/ ParseEnd \/ Activate
  \/ SetMode \/ DrawBegin \/ DrawMesh \/ DrawEnd

SpecBuilder == InitBuilder /\ [][NextBuilder]_vars

\* ------------------------------------------ SUNCGShader::fShader, mode 4
\* Depths are in hundredths: NEAR = 0.1 is NEAR100 = 10.  gl_FragCoord.z is
\* k / ZGrid for k in 0..ZGrid.
FAR100 == 10000

INV_NEAR100 == (100 * 100) \div NEAR100

INV_FAR100 == (100 * 100) \div FAR100

\* InverseDepth(d), in hundredths.
InverseDepth(k) == INV_NEAR100 + (k * (INV_FAR100 - INV_NEAR100)) \div ZGrid

\* Lines 94-100: f = 65535 * minDepth * invDepth + 0.5 is f_num / 10000.
main_mode4(minDepth, k) ==
  LET invDepth == InverseDepth(k)
      f_num == 65535 * minDepth * invDepth + 5000
      ms == f_num \div (256 * 10000)
      ls == (f_num - ms * 256 * 10000) \div 10000
  IN <<Unit(ms), Unit(ls), <<0, 1>>, <<1, 1>>>>

MinDepths == {5, NEAR100, 2 * NEAR100, 3 * NEAR100}

InitShader ==
  /\ pc = "fragment"
  /\ IdleColors /\ IdleResolve /\ IdleObj /\ IdleBuild
  /\ semantic_color_ = CoarseLabels
  /\ background_color_ = get_background_color(semantic_color_)
  /\ resolution = resolution_for(semantic_color_)
  /\ mode_ = "INVDEPTH"
  /\ minDepth_ \in MinDepths
  /\ gl = uniforms_before_loop(mode_, GLDefault, minDepth_)
  /\ cleared = <<>> /\ drawn = <<>> /\ di = 0 /\ frames = 0
  /\ gl_FragCoord_z \in 0..ZGrid
  /\ fragcolor = <<>>

ShadeFragment ==
  /\ pc = "fragment"
  /\ gl.mode = ShaderMode.INVDEPTH
  /\ fragcolor' = main_mode4(gl.minDepth, gl_FragCoord_z)
  /\ pc' = "shaded"
  /\ UNCHANGED <<colorVars, resolveVars, tableVars, objVars, buildVars, drawVars,
                 gl_FragCoord_z>>

NextShader == ShadeFragment

SpecShader == InitShader /\ [][NextShader]_vars

\* ===================================================================
\* Properties
\* ===================================================================
StartsWith(s, p) == Len(s) >= Len(p) /\ SubSeq(s, 1, Len(p)) = p

HasHash(s) == \E k \in DOMAIN s : s[k] = "#"

\* The part of s before its first '#'.
BeforeHash(s) ==
  LET n == CHOOSE k \in DOMAIN s : s[k] = "#" /\ \A j \in 1..(k - 1) : s[j] # "#"
  IN SubSeq(s, 1, n - 1)

Alias(klass) == IF klass \in {s_WallInside, s_WallOutside} THEN s_Wall ELSE klass

BagOf(s) == [x \in Range(s) |-> Cardinality({k \in DOMAIN s : s[k] = x})]

InUnit(x) == 0 <= x[1] /\ x[1] <= x[2]

\* C1: get_uniform_sampled_colors(count) returns exactly count colours, every
\* component in [0,1], pairwise distinct, and as a multiset they are the
\* decodings (r = v mod 256, g = (v/256) mod 256, b = (v/65536) mod 256, each
\* over 255) of v = interval*(i+1), i in [0,count), interval = 256^3 div (count+2).
\* For the counts up to 10,000 that are not enumerated, the last conjunct
\* checks what keeps the decodings distinct: the step is at least 1 and the
\* largest raw integer is below 256^3.
C1_SampledColors ==
  pc = "colors_returned" =>
    LET interval == (256 * 256 * 256) \div (count + 2)
        decoded(v) == <<<<v % 256, 255>>, <<(v \div 256) % 256, 255>>,
                        <<(v \div 65536) % 256, 255>>>>
        raw == [k \in 1..count |-> decoded(interval * k)]
    IN /\ Len(result) = count
       /\ \A k \in DOMAIN result : \A c \in 1..3 : InUnit(result[k][c])
       /\ \A j, k \in DOMAIN result : j # k => result[j] # result[k]
       /\ BagOf(result) = BagOf(raw)
       /\ \A n \in {count, 100 * count, 2000 * count} :
            interval_length(n) >= 1 /\ interval_length(n) * n < 256 * 256 * 256

C1_Witness ==
  /\ pc = "colors_returned"
  /\ count >= 3
  /\ result # sampled_colors(count)

\* C2: after the build, the instance colour of every retained shape with
\* original index k is entry k of the palette computed for the original shape
\* count, whatever was removed before it; two retained shapes have the same
\* instance colour exactly when they share an original index.
C2_InstanceColorByOriginalIndex ==
  pc \in {"activate", "ready"} =>
    /\ Len(rand_instance_colors) = Len(loaded)
    /\ Len(materials_) = Len(retained)
    /\ \A k \in DOMAIN materials_ :
         /\ retained[k].name = loaded[retained[k].original_index + 1].name
         /\ materials_[k].instance_color =
              rand_instance_colors[retained[k].original_index + 1]
    /\ \A j, k \in DOMAIN materials_ :
         (materials_[j].instance_color = materials_[k].instance_color)
           <=> (retained[j].original_index = retained[k].original_index)

C2_Witness ==
  /\ pc = "ready"
  /\ \E k \in DOMAIN retained : retained[k].original_index = 1
  /\ \A k \in DOMAIN retained : retained[k].original_index # 0

\* The colour the dispatch of section 4.2 gives a resolved class.
WallLike(n) ==
  \E p \in {s_WallInside, s_WallOutside, s_Wall} : StartsWith(n, p \o s_Hash)

DispatchOutsideGround(n, c) ==
  /\ StartsWith(n, s_ModelHash) =>
       c = get_color(name_from_mode_id(SubSeq(n, 7, Len(n))))
  /\ (~StartsWith(n, s_ModelHash) /\ ~StartsWith(n, s_Ground) /\ HasHash(n)) =>
       c = get_color(Alias(BeforeHash(n)))

\* C3 (as stated): ordered dispatch Model# / Ground / '#', where a name that is
\* "Ground" followed by any suffix resolves to the "Ground" category, and
\* WallInside#x, WallOutside#y, Wall#z get one colour.
C3_AsStated ==
  pc = "resolve_returned" =>
    /\ DispatchOutsideGround(name, color)
    /\ StartsWith(name, s_Ground) => color = get_color(s_Ground)
    /\ (prev # NoCall /\ WallLike(prev.name) /\ WallLike(name)) => color = prev.color

\* C3 (amended): the second rule matches only the name equal to "Ground"; a name
\* "Ground" + suffix goes on to the '#' rule (class = text before the first '#')
\* and fails to the background colour when it holds no '#'.
C3_Dispatch ==
  pc = "resolve_returned" =>
    /\ DispatchOutsideGround(name, color)
    /\ name = s_Ground => color = get_color(s_Ground)
    /\ (StartsWith(name, s_Ground) /\ name # s_Ground) =>
         color = IF HasHash(name) THEN get_color(Alias(BeforeHash(name)))
                 ELSE background_color_
    /\ (prev # NoCall /\ WallLike(prev.name) /\ WallLike(name)) => color = prev.color

C3_Witness ==
  /\ pc = "resolve_returned"
  /\ prev.name = s_Ground
  /\ name = s_Ground \o <<"x">>
  /\ color = background_color_
  /\ color # prev.color

Unparseable(n) == ~StartsWith(n, s_ModelHash) /\ n # s_Ground /\ ~HasHash(n)

ClassOfName(n) ==
  IF StartsWith(n, s_ModelHash) THEN name_from_mode_id(SubSeq(n, 7, Len(n)))
  ELSE IF n = s_Ground THEN s_Ground
  ELSE Alias(BeforeHash(n))

ResolutionFails(n) ==
  Unparseable(n) \/ ClassOfName(n) \notin DOMAIN semantic_color_.table

\* C4: when a name has no "Model#" prefix, is not "Ground" and holds no '#', or
\* its class is not in the semantic colour table, the shape gets the background
\* colour, and the build goes on: it only ever stops on a mesh assertion.
C4_FailureIsBackground ==
  /\ \A k \in DOMAIN materials_ :
       ResolutionFails(retained[k].name) =>
         /\ materials_[k].label_color = background_color_
         /\ materials_[k].label_color = semantic_color_.background
  /\ pc \in {"activate", "ready"} => Len(materials_) = Len(retained)
  /\ pc = "fatal" => ~asserts_hold(shapes[si + 1].mesh)

C4_Witness ==
  /\ pc = "ready"
  /\ \E k \in DOMAIN retained : Unparseable(retained[k].name)
  /\ \E k \in DOMAIN retained :
       /\ ~Unparseable(retained[k].name)
       /\ ResolutionFails(retained[k].name)

Blacklisted(n) ==
  \E k \in DOMAIN model_blacklist_file.lines :
    n = s_ModelHash \o model_blacklist_file.lines[k]

\* C5: after filter_models no retained shape is named "Model#"+id for a
\* blacklisted id, every other shape is kept in its original relative order,
\* and filtering again with the same blacklist changes nothing.
C5_FilterModels ==
  pc = "ctor_filter_category" =>
    /\ \A k \in DOMAIN shapes : ~Blacklisted(shapes[k].name)
    /\ \A k \in DOMAIN shapes : shapes[k] = loaded[shapes[k].original_index + 1]
    /\ \A j, k \in DOMAIN shapes :
         j < k => shapes[j].original_index < shapes[k].original_index
    /\ \A k \in DOMAIN loaded :
         ~Blacklisted(loaded[k].name) => \E j \in DOMAIN shapes : shapes[j] = loaded[k]
    /\ filter_models(shapes, model_blacklist_file) = shapes

C5_Witness ==
  /\ pc = "ctor_filter_category"
  /\ Len(shapes) = 1
  /\ Len(loaded) = 2
  /\ shapes[1].original_index = 1

OneMaterial(shp) == Cardinality(Range(shp.mesh.material_ids)) <= 1

AbsDiff(a, b) == IF a < b THEN b - a ELSE a - b

\* C7: for every minDepth and every inverse depth between 1/FAR and 1/NEAR the
\* mode-4 bytes R and G are in 0..255 and (256*R + G) / (65535*minDepth) is
\* within 1/(65535*minDepth) of the inverse depth.
C7_RoundTrip ==
  pc = "shaded" =>
    LET R == fragcolor[1][1]
        G == fragcolor[2][1]
        invDepth == InverseDepth(gl_FragCoord_z)
    IN /\ R \in 0..255
       /\ G \in 0..255
       /\ AbsDiff((256 * R + G) * 10000, 65535 * minDepth_ * invDepth) <= 10000

PositionsOf(meshes) ==
  UNION {{meshes[k].vertices[j].pos : j \in DOMAIN meshes[k].vertices} :
           k \in DOMAIN meshes}

\* C8: after parse_scene the box is the componentwise min/max of the vertex
\* positions added to the meshes; boxmin <= boxmax componentwise iff a vertex
\* was added, and with none the box is the sentinel, boxmin > boxmax throughout.
C8_BoundingBox ==
  pc \in {"activate", "ready"} =>
    LET P == PositionsOf(mesh_)
    IN /\ P # {} =>
            \A c \in 1..3 :
              /\ \E p \in P : boxmin_[c] = p[c]
              /\ \E p \in P : boxmax_[c] = p[c]
              /\ \A p \in P : boxmin_[c] <= p[c] /\ p[c] <= boxmax_[c]
       /\ P = {} =>
            /\ boxmin_ = <<FLT_MAX, FLT_MAX, FLT_MAX>>
            /\ boxmax_ = <<-FLT_MAX, -FLT_MAX, -FLT_MAX>>
            /\ \A c \in 1..3 : boxmin_[c] > boxmax_[c]
       /\ (\A c \in 1..3 : boxmin_[c] <= boxmax_[c]) <=> (P # {})

C8_Witness ==
  /\ pc = "ready"
  /\ Len(mesh_) = 2
  /\ \A c \in 1..3 : boxmin_[c] < boxmax_[c]
  /\ \E c \in 1..3 : \A j \in DOMAIN mesh_[1].vertices :
       boxmin_[c] < mesh_[1].vertices[j].pos[c]

CallAsClaimed(call, rmode) ==
  LET material == materials_[call.mesh + 1]
      m == obj_materials[material.mid + 1]
  IN CASE rmode = "RGB" ->
            /\ call.mode = IF material.texture # 0 THEN 0 ELSE 1
            /\ call.Kd = m.diffuse /\ call.Ka = m.ambient
            /\ call.dissolve = m.dissolve
            /\ call.texture = material.texture
       [] rmode = "SEMANTIC" ->
            call.mode = 2 /\ call.Kd = material.label_color /\ call.texture = 0
       [] rmode = "INSTANCE" ->
            call.mode = 2 /\ call.Kd = material.instance_color /\ call.texture = 0
       [] rmode = "DEPTH" -> call.mode = 3
       [] rmode = "INVDEPTH" -> call.mode = 4 /\ call.minDepth = minDepth_
       [] OTHER -> FALSE

\* C9: every draw issues one draw call per object, in mesh order, with the
\* shader mode of the active RenderMode: RGB 0 (textured) or 1 (untextured) with
\* the object's own Kd/Ka/dissolve; SEMANTIC/INSTANCE 2 with Kd the object's
\* semantic/instance colour and no texture bound; DEPTH 3; INVDEPTH 4 with
\* minDepth; both set before the first object.  Any other RenderMode throws
\* and draws nothing.
C9_DrawProtocol ==
  /\ pc = "draw_loop" =>
       /\ mode_ \in RenderModes
       /\ Len(drawn) = di /\ di <= Len(mesh_)
       /\ \A k \in DOMAIN drawn :
            drawn[k].mesh = k - 1 /\ CallAsClaimed(drawn[k], mode_)
       /\ mode_ = "DEPTH" => gl.mode = 3
       /\ mode_ = "INVDEPTH" => gl.mode = 4 /\ gl.minDepth = minDepth_
  /\ (pc = "ready" /\ frames > 0) =>
       /\ Len(drawn) = Len(mesh_)
       /\ \A k \in DOMAIN drawn : drawn[k].mesh = k - 1
  /\ pc = "thrown" => mode_ \notin RenderModes /\ drawn = <<>>

C9_Witness ==
  /\ pc = "draw_loop"
  /\ mode_ = "RGB"
  /\ frames = 2
  /\ di = Len(mesh_)
  /\ \E j, k \in DOMAIN drawn : drawn[j].mode = 0 /\ drawn[k].mode = 1

\* C10: after the build the mesh and material arrays have the length of the
\* retained shape list and entry i of both comes from the i-th retained shape;
\* this holds at activation and at every draw, and every mesh comes from a
\* shape with at least one face.
C10_AlignedArrays ==
  /\ \A k \in DOMAIN mesh_ : retained[k].mesh.faces # <<>>
  /\ pc \in {"activate", "ready", "draw_loop", "thrown"} =>
       /\ Len(mesh_) = Len(materials_)
       /\ Len(mesh_) = Len(retained)
       /\ \A k \in DOMAIN mesh_ :
            /\ PositionsOf(<<mesh_[k]>>) =
                 {retained[k].mesh.faces[f][v].pos :
                    f \in DOMAIN retained[k].mesh.faces, v \in 1..3}
            /\ Len(mesh_[k].vertices) = 3 * Len(retained[k].mesh.faces)
            /\ materials_[k].mid \in Range(retained[k].mesh.material_ids)
            /\ materials_[k].label_color = get_color_by_shape_name(retained[k].name)

C10_Witness ==
  /\ pc = "draw_loop"
  /\ di = 2
  /\ Len(mesh_) = 2
  /\ Len(retained[2].mesh.faces) > 1


====
